---- MODULE Spec2Model ----
(***************************************************************************)
(* Disaster-adaptive last-mile logistics simulator.                        *)
(*                                                                         *)
(* Three specifications over one variable list:                              *)
(*   ParSpec - the parallel coordinator of                                 *)
(*             Parallelized-Monte-Carlo-Simulation-V2/monte_carlo_organized*)
(*             (five process_worker processes, one result queue, the       *)
(*             collection loop, join and reporting);                       *)
(*   Spec    - the simulation engine (MonteCarloSimulation.run_simulation  *)
(*             driving MonteCarloSimulationWorker), run once per weather   *)
(*             severity over one graph object as the single-thread driver  *)
(*             does;                                                       *)
(*   MoveSpec - one MonteCarloSimulationWorker whose simulate_movement is  *)
(*             invoked repeatedly on one route.                            *)
(***************************************************************************)
EXTENDS Integers, Sequences, FiniteSets, TLC

VARIABLES
    \* ---- parallel coordinator ----
    wpc,              \* per worker: position inside process_worker
    wsim,             \* per worker: what the local name `simulation` holds
    puts,             \* per worker: the messages it has put on main_queue (history)
    main_queue,       \* multiprocessing.Queue: messages in flight
    cpc,              \* coordinator position: collect / join / report / done
    received,         \* number of main_queue.get() calls that returned
    simulation_runs,  \* the coordinator's list of collected simulations
    labels            \* what the reporting attached to each collected run

parVars == <<wpc, wsim, puts, main_queue, cpc, received, simulation_runs, labels>>

VARIABLES
    \* ---- simulation engine ----
    G,                      \* the networkx DiGraph: nodes and edge attributes
    start_node,             \* MonteCarloSimulation.start_node
    delivery_nodes,         \* MonteCarloSimulation.delivery_nodes (a list)
    num_simulations,        \* the trial count handed to run_simulation
    pc,                     \* position of the driver / run_simulation
    severity,               \* the driver's loop variable weather_severity
    weather_severity,       \* MonteCarloSimulation.weather_severity (0 = None)
    completed_simulations,  \* MonteCarloSimulation.completed_simulations
    all_runs,               \* simulation_results['all_runs']
    rain_intensity,         \* the rain intensity drawn for the current trial
    activated_disasters,    \* what activate_disasters returned for it
    drawn                   \* the uniform draws activate_disasters made (history)

simVars == <<G, start_node, delivery_nodes, num_simulations, pc, severity,
             weather_severity, completed_simulations, all_runs, rain_intensity,
             activated_disasters, drawn>>

VARIABLES
    \* ---- one MonteCarloSimulationWorker called directly ----
    call_route,             \* the route argument of simulate_movement
    call_path_sequence,     \* its path_sequence argument
    movement_results        \* what its successive invocations returned (history)

callVars == <<call_route, call_path_sequence, movement_results>>

vars == <<parVars, simVars, callVars>>

\* No direct call is part of the coordinator's or the engine's specification.
CallIdle ==
    /\ call_route = <<>>
    /\ call_path_sequence = <<>>
    /\ movement_results = <<>>

(***************************************************************************)
(* Parallel coordinator                                                    *)
(***************************************************************************)

\* for weather_severity in range(1, 6)
NumSeverities == 5
Severities == 1..NumSeverities

\* main_queue.put(None): the failure marker
NoneMsg == [is_none |-> TRUE, weather_severity |-> 0, run_completed |-> FALSE]

\* main_queue.put(simulation): the MonteCarloSimulation object of worker w;
\* run_completed tells whether run_simulation returned or raised part-way.
SimMsg(w, completed) ==
    [is_none |-> FALSE, weather_severity |-> w, run_completed |-> completed]

\* The engine is not part of the coordinator's specification: its variables rest.
SimIdle ==
    /\ G = [nodes |-> {}, edges |-> <<>>]
    /\ start_node = 0
    /\ delivery_nodes = <<>>
    /\ num_simulations = 0
    /\ pc = "idle"
    /\ severity = 0
    /\ weather_severity = 0
    /\ completed_simulations = 0
    /\ all_runs = <<>>
    /\ rain_intensity = 0
    /\ activated_disasters = [floods |-> 0, landslides |-> 0]
    /\ drawn = <<>>

ParInit ==
    /\ wpc = [w \in Severities |-> "try"]
    /\ wsim = [w \in Severities |-> "unbound"]
    /\ puts = [w \in Severities |-> <<>>]
    /\ main_queue = <<>>
    /\ cpc = "collect"
    /\ received = 0
    /\ simulation_runs = <<>>
    /\ labels = <<>>
    /\ SimIdle
    /\ CallIdle

\* The process ends before it reaches any put: nx.node_link_graph (outside the
\* try block) raises, or the process is terminated from outside.
WorkerDiesBeforePut(w) ==
    /\ wpc[w] = "try"
    /\ wpc' = [wpc EXCEPT ![w] = "killed"]
    /\ UNCHANGED <<wsim, puts, main_queue, cpc, received, simulation_runs, labels, simVars, callVars>>

\* try: simulation = MonteCarloSimulation(...); simulation.run_simulation(...)
\*   completed   - both returned
\*   init_raised - the constructor raised: `simulation` was never bound
\*   run_raised  - run_simulation raised: `simulation` is bound, partly run
WorkerTry(w) ==
    /\ wpc[w] = "try"
    /\ \E outcome \in {"completed", "init_raised", "run_raised"} :
          /\ wsim' = [wsim EXCEPT ![w] =
                         CASE outcome = "completed"   -> "complete"
                           [] outcome = "init_raised" -> "unbound"
                           [] outcome = "run_raised"  -> "partial"]
          /\ wpc' = [wpc EXCEPT ![w] =
                         IF outcome = "completed" THEN "put" ELSE "except"]
    /\ UNCHANGED <<puts, main_queue, cpc, received, simulation_runs, labels, simVars, callVars>>

\* except Exception as e: main_queue.put(None); print(...)  -- falls through
WorkerExcept(w) ==
    /\ wpc[w] = "except"
    /\ main_queue' = Append(main_queue, NoneMsg)
    /\ puts' = [puts EXCEPT ![w] = Append(@, NoneMsg)]
    /\ wpc' = [wpc EXCEPT ![w] = "put"]
    /\ UNCHANGED <<wsim, cpc, received, simulation_runs, labels, simVars, callVars>>

\* main_queue.put(simulation), reached on both the normal and the except path.
\* With `simulation` unbound the statement raises UnboundLocalError and the
\* process ends without a second put.
WorkerPut(w) ==
    /\ wpc[w] = "put"
    /\ IF wsim[w] = "unbound"
       THEN /\ wpc' = [wpc EXCEPT ![w] = "dead"]
            /\ UNCHANGED <<main_queue, puts>>
       ELSE /\ main_queue' = Append(main_queue, SimMsg(w, wsim[w] = "complete"))
            /\ puts' = [puts EXCEPT ![w] = Append(@, SimMsg(w, wsim[w] = "complete"))]
            /\ wpc' = [wpc EXCEPT ![w] = "done"]
    /\ UNCHANGED <<wsim, cpc, received, simulation_runs, labels, simVars, callVars>>

\* One iteration of `for _ in range(len(processes))`: main_queue.get() with no
\* timeout (enabled only when a message is there), append unless it is None.
CoordinatorGet ==
    /\ cpc = "collect"
    /\ main_queue # <<>>
    /\ LET process_results == Head(main_queue) IN
          simulation_runs' = IF process_results.is_none
                             THEN simulation_runs
                             ELSE Append(simulation_runs, process_results)
    /\ main_queue' = Tail(main_queue)
    /\ received' = received + 1
    /\ cpc' = IF received + 1 = NumSeverities THEN "join" ELSE "collect"
    /\ UNCHANGED <<wpc, wsim, puts, labels, simVars, callVars>>

\* for p in processes: p.join(timeout=10) -- bounded, always returns
CoordinatorJoin ==
    /\ cpc = "join"
    /\ cpc' = "report"
    /\ UNCHANGED <<wpc, wsim, puts, main_queue, received, simulation_runs, labels, simVars, callVars>>

\* for i, simulation in enumerate(simulation_runs):
\*     label=f'Simulation with Weather Severity {i+1}'   /   'run': i+1
RunLabels(runs) ==
    [i \in 1..Len(runs) |->
        [label |-> i, weather_severity |-> runs[i].weather_severity]]

\* if simulation_runs: plot...(simulation_runs); visualize...(simulation_runs)
CoordinatorReport ==
    /\ cpc = "report"
    /\ labels' = IF simulation_runs # <<>> THEN RunLabels(simulation_runs) ELSE <<>>
    /\ cpc' = "done"
    /\ UNCHANGED <<wpc, wsim, puts, main_queue, received, simulation_runs, simVars, callVars>>

ParNext ==
    \/ \E w \in Severities : WorkerDiesBeforePut(w)
    \/ \E w \in Severities : WorkerTry(w)
    \/ \E w \in Severities : WorkerExcept(w)
    \/ \E w \in Severities : WorkerPut(w)
    \/ CoordinatorGet
    \/ CoordinatorJoin
    \/ CoordinatorReport

ParSpec == ParInit /\ [][ParNext]_vars

(***************************************************************************)
(* Simulation engine: units                                                *)
(*                                                                         *)
(* Reals are kept exact as scaled integers:                                *)
(*   flood_prone, landslide_prone   tenths        (10 = 1.0)               *)
(*   flood/landslide_activation     hundredths    (30 = 0.30)              *)
(*   speed_multiplier               tenths        (8  = 0.8)               *)
(*   activation thresholds, draws   1/10000       (random() in [0,1))      *)
(*   adjusted_weight                1/12          (AdjScale)               *)
(*   time                           1/(36 * base_speed)                    *)
(* +infinity is the value Inf, with its own sum and order.                 *)
(***************************************************************************)

\* MonteCarloSimulation.__init__(..., base_speed_mpm=500, ...)
base_speed == 500

Inf == -1

IsInf(x) == x = Inf

\* float addition and comparison extended with +inf
AddInf(x, y) == IF IsInf(x) \/ IsInf(y) THEN Inf ELSE x + y

LessInf(x, y) == IF IsInf(x) THEN FALSE ELSE IF IsInf(y) THEN TRUE ELSE x < y

\* the table with a crawl instead of a standstill at level 5
rain_effects_crawl_at_five ==
    [r \in 1..5 |->
        CASE r = 1 -> [flood_activation |-> 10,  landslide_activation |-> 0,   speed_multiplier |-> 10]
          [] r = 2 -> [flood_activation |-> 30,  landslide_activation |-> 5,   speed_multiplier |-> 8]
          [] r = 3 -> [flood_activation |-> 60,  landslide_activation |-> 15,  speed_multiplier |-> 6]
          [] r = 4 -> [flood_activation |-> 90,  landslide_activation |-> 30,  speed_multiplier |-> 4]
          [] r = 5 -> [flood_activation |-> 100, landslide_activation |-> 100, speed_multiplier |-> 1]]

\* rain_effects: flood_activation, landslide_activation (hundredths),
\* speed_multiplier (tenths)
rain_effects ==
    [r \in 1..5 |->
        CASE r = 1 -> [flood_activation |-> 10,  landslide_activation |-> 0,   speed_multiplier |-> 10]
          [] r = 2 -> [flood_activation |-> 30,  landslide_activation |-> 5,   speed_multiplier |-> 8]
          [] r = 3 -> [flood_activation |-> 60,  landslide_activation |-> 15,  speed_multiplier |-> 6]
          [] r = 4 -> [flood_activation |-> 90,  landslide_activation |-> 30,  speed_multiplier |-> 4]
          [] r = 5 -> [flood_activation |-> 100, landslide_activation |-> 100, speed_multiplier |-> 0]]

\* the lookup reading the table one level too high
rain_intensity_effects_next_level(r) ==
    IF r + 1 \in DOMAIN rain_effects THEN rain_effects[r + 1] ELSE rain_effects[1]

\* rain_effects.get(rain_intensity, rain_effects[1])
rain_intensity_effects(r) ==
    IF r \in DOMAIN rain_effects THEN rain_effects[r] ELSE rain_effects[1]

\* get_rainfall_probability_by_condition: the probabilities in thousandths;
\* np.random.choice(range(1,6), p=...) can return every level whose entry is > 0
get_rainfall_probability_by_condition(ws) ==
    CASE ws = 1 -> <<920, 60, 15, 4, 1>>
      [] ws = 2 -> <<550, 250, 120, 60, 20>>
      [] ws = 3 -> <<250, 250, 250, 150, 100>>
      [] ws = 4 -> <<50, 100, 200, 300, 350>>
      [] ws = 5 -> <<5, 20, 75, 350, 550>>

RainChoices(ws) ==
    {r \in 1..5 : get_rainfall_probability_by_condition(ws)[r] > 0}

(***************************************************************************)
(* Graph                                                                   *)
(***************************************************************************)

Edges(graph) == DOMAIN graph.edges

has_edge(graph, u, v) == <<u, v>> \in Edges(graph)

\* activation thresholds in 1/1000: *= 1.2 and *= 1.3 when rain_intensity >= 4
flood_threshold(r) ==
    IF r >= 4 THEN rain_intensity_effects(r).flood_activation * 12
              ELSE rain_intensity_effects(r).flood_activation * 10

landslide_threshold(r) ==
    IF r >= 4 THEN rain_intensity_effects(r).landslide_activation * 13
              ELSE rain_intensity_effects(r).landslide_activation * 10

\* random.random() lies in [0, 1): in 1/10000, 0 is below every positive
\* product and 9999 is below exactly the products >= 1.
RandomValues == {0, 9999}

\* The two random.random() values of every edge.  On an edge with both
\* proneness values 0 each test reads `draw < 0`, false for every draw, so the
\* least draw stands for all of them there.
Draws(graph) ==
    LET prone == {e \in Edges(graph) : graph.edges[e].flood_prone > 0
                                         \/ graph.edges[e].landslide_prone > 0}
    IN  {[e \in Edges(graph) |-> IF e \in prone THEN u[e]
                                                 ELSE [flood |-> 0, landslide |-> 0]]
         : u \in [prone -> [flood : RandomValues, landslide : RandomValues]]}

\* ActivateEdge with the flags only ever set: an edge whose draw fails keeps
\* the flag an earlier trial left on it
ActivateEdgeKeepsOldFlags(data, r, u) ==
    [data EXCEPT
        !.currently_flooded   = @ \/ (u.flood < data.flood_prone * flood_threshold(r)),
        !.currently_landslide = @ \/ (u.landslide < data.landslide_prone * landslide_threshold(r))]

\* the loop body of activate_disasters for one edge, u being its two draws
ActivateEdge(data, r, u) ==
    [data EXCEPT
        !.currently_flooded   = (u.flood < data.flood_prone * flood_threshold(r)),
        !.currently_landslide = (u.landslide < data.landslide_prone * landslide_threshold(r))]

\* activate_disasters: the graph after the loop over G.edges(data=True)
activate_disasters(graph, r, u) ==
    [graph EXCEPT !.edges = [e \in Edges(graph) |-> ActivateEdge(graph.edges[e], r, u[e])]]

\* activate_disasters: the returned activated_disasters counts
ActivatedCounts(graph) ==
    [floods     |-> Cardinality({e \in Edges(graph) : graph.edges[e].currently_flooded}),
     landslides |-> Cardinality({e \in Edges(graph) : graph.edges[e].currently_landslide})]

(***************************************************************************)
(* find_danger_aware_shortest_path                                         *)
(***************************************************************************)

\* the least scale in which 1/max(0.1, speed_multiplier) is whole for every level
AdjScale == 3 * 4

MulInf(x, k) == IF IsInf(x) THEN Inf ELSE x * k

\* penalty_factor before the rain slowdown is applied
PenaltyFactor(data, r) ==
    LET afterFlood ==
            IF data.currently_flooded
            THEN (IF r >= 5 THEN Inf ELSE 5)
            ELSE 1
    IN  IF data.currently_landslide
        THEN (IF r >= 4 THEN Inf ELSE MulInf(afterFlood, 10))
        ELSE afterFlood

\* the rain slowdown left out: penalty_factor divided by 1
SlowdownFactorWithoutRain(r) ==
    AdjScale

\* 1 / max(0.1, speed_multiplier), in 1/AdjScale: 12, 15, 20, 30, 120
SlowdownFactor(r) ==
    LET sm == rain_intensity_effects(r).speed_multiplier
    IN  (AdjScale * 10) \div (IF sm > 1 THEN sm ELSE 1)

\* adjusted_weight = edge_weight * penalty_factor, in 1/AdjScale
adjusted_weight(data, r) ==
    MulInf(MulInf(PenaltyFactor(data, r), SlowdownFactor(r)), data.length)

\* All node sequences without a repeated node that follow edges of the graph
\* from s to t (s # t).
SimplePaths(graph, s, t) ==
    {p \in UNION {[1..n -> graph.nodes] : n \in 2..Cardinality(graph.nodes)} :
        /\ p[1] = s
        /\ p[Len(p)] = t
        /\ \A i, j \in 1..Len(p) : i # j => p[i] # p[j]
        /\ \A i \in 1..(Len(p) - 1) : has_edge(graph, p[i], p[i + 1])}

RECURSIVE PathCost(_, _, _, _)
\* the sum of adjusted_weight over path[i..]
PathCost(graph, path, r, i) ==
    IF i >= Len(path) THEN 0
    ELSE AddInf(adjusted_weight(graph.edges[<<path[i], path[i + 1]>>], r),
                PathCost(graph, path, r, i + 1))

RECURSIVE PathLength(_, _, _)
\* "Calculate path length using original lengths": the sum over path[i..]
PathLength(graph, path, i) ==
    IF i >= Len(path) THEN 0
    ELSE graph.edges[<<path[i], path[i + 1]>>].length + PathLength(graph, path, i + 1)

\* the search finding nothing when source and target are the same node
shortest_path_without_trivial_path(graph, s, t, r) ==
    LET all == SimplePaths(graph, s, t)
    IN  {p \in all :
           \A q \in all : ~LessInf(PathCost(graph, q, r, 1), PathCost(graph, p, r, 1))}

\* nx.shortest_path(G_temp, source, target, weight='adjusted_weight'):
\* Dijkstra over adjusted_weight.  networkx hides an edge only when its weight
\* is None; +inf is an ordinary float, so a node reached only over +inf edges
\* is still reached, at distance +inf.  The result is a path of least total
\* adjusted weight; which one among equals is left open (a set).  The empty
\* set stands for NetworkXNoPath.
shortest_path(graph, s, t, r) ==
    IF s = t THEN {<<s>>}
    ELSE LET all == SimplePaths(graph, s, t)
         IN  {p \in all :
                \A q \in all : ~LessInf(PathCost(graph, q, r, 1), PathCost(graph, p, r, 1))}

NoPath == [path |-> <<>>, length |-> Inf]

\* the pathfinder reporting the adjusted cost of the path it found
find_danger_aware_shortest_path_adjusted(graph, source_id, target_id, r) ==
    IF source_id \notin graph.nodes \/ target_id \notin graph.nodes
    THEN {NoPath}
    ELSE LET found == shortest_path(graph, source_id, target_id, r)
         IN  IF found = {} THEN {NoPath}
             ELSE {[path |-> p, length |-> PathCost(graph, p, r, 1)] : p \in found}

\* find_danger_aware_shortest_path: the results the call can return,
\* (None, inf) being NoPath.
find_danger_aware_shortest_path(graph, source_id, target_id, r) ==
    IF source_id \notin graph.nodes \/ target_id \notin graph.nodes
    THEN {NoPath}
    ELSE LET found == shortest_path(graph, source_id, target_id, r)
         IN  IF found = {} THEN {NoPath}
             ELSE {[path |-> p, length |-> PathLength(graph, p, 1)] : p \in found}

(***************************************************************************)
(* find_disaster_aware_route                                               *)
(***************************************************************************)

\* Python's None for a node, a route or a path; `if next_node:` and
\* `if not route:` test truthiness, under which None, 0 and [] are alike.
None == 0

ToSet(seq) == {seq[i] : i \in 1..Len(seq)}

\* The orders in which `for node in unvisited` can visit set(delivery_nodes):
\* the iteration order of a Python set is not fixed by its contents.
SetOrders(S) ==
    {o \in [1..Cardinality(S) -> S] : \A i, j \in 1..Cardinality(S) : i # j => o[i] # o[j]}

NoBest == [next_node |-> None, shortest_distance |-> Inf, shortest_path |-> <<>>]

RECURSIVE ScanUnvisitedKeepsLastReachable(_, _, _, _, _, _)
\* the scan without the comparison of distances: every node with a path
\* replaces the candidate
ScanUnvisitedKeepsLastReachable(graph, current_node, nodes, i, r, best) ==
    IF i > Len(nodes) THEN {best}
    ELSE UNION {
            ScanUnvisitedKeepsLastReachable(graph, current_node, nodes, i + 1, r,
                IF res.path # <<>>
                THEN [next_node |-> nodes[i], shortest_distance |-> res.length,
                      shortest_path |-> res.path]
                ELSE best)
            : res \in find_danger_aware_shortest_path(graph, current_node, nodes[i], r)}

RECURSIVE ScanUnvisitedLaterTieWins(_, _, _, _, _, _)
\* the scan comparing with <= : among equally near nodes the last one is kept
ScanUnvisitedLaterTieWins(graph, current_node, nodes, i, r, best) ==
    IF i > Len(nodes) THEN {best}
    ELSE UNION {
            ScanUnvisitedLaterTieWins(graph, current_node, nodes, i + 1, r,
                IF res.path # <<>> /\ ~LessInf(best.shortest_distance, res.length)
                THEN [next_node |-> nodes[i], shortest_distance |-> res.length,
                      shortest_path |-> res.path]
                ELSE best)
            : res \in find_danger_aware_shortest_path(graph, current_node, nodes[i], r)}

RECURSIVE ScanUnvisited(_, _, _, _, _, _)
\* for node in unvisited: path, distance = find_danger_aware_shortest_path(...)
\*     if path and distance < shortest_distance: ...
\* `nodes` is the unvisited set in iteration order; the results are the values
\* (next_node, shortest_distance, shortest_path) can hold after the loop.
ScanUnvisited(graph, current_node, nodes, i, r, best) ==
    IF i > Len(nodes) THEN {best}
    ELSE UNION {
            ScanUnvisited(graph, current_node, nodes, i + 1, r,
                IF res.path # <<>> /\ LessInf(res.length, best.shortest_distance)
                THEN [next_node |-> nodes[i], shortest_distance |-> res.length,
                      shortest_path |-> res.path]
                ELSE best)
            : res \in find_danger_aware_shortest_path(graph, current_node, nodes[i], r)}

NoRoute == [route |-> <<>>, total_distance |-> 0, path_sequence |-> <<>>]

RECURSIVE RouteLoopReturnsPartialRoute(_, _, _, _, _, _, _, _)
\* the loop giving back the route built so far when no unvisited node has a path
RouteLoopReturnsPartialRoute(graph, current_node, unvisited, route, path_sequence, total_distance, r, order) ==
    IF unvisited = {}
    THEN {[route |-> route, total_distance |-> total_distance,
           path_sequence |-> path_sequence]}
    ELSE UNION {
            IF best.next_node # None
            THEN RouteLoopReturnsPartialRoute(graph, best.next_node,
                           unvisited \ {best.next_node},
                           Append(route, best.next_node),
                           path_sequence \o Tail(best.shortest_path),
                           total_distance + best.shortest_distance, r, order)
            ELSE {[route |-> route, total_distance |-> total_distance,
                   path_sequence |-> path_sequence]}
            : best \in ScanUnvisited(graph, current_node,
                                     SelectSeq(order, LAMBDA n : n \in unvisited),
                                     1, r, NoBest)}

RECURSIVE RouteLoopKeepsJoinNode(_, _, _, _, _, _, _, _)
\* the loop extending path_sequence by the whole sub-path, join node included
RouteLoopKeepsJoinNode(graph, current_node, unvisited, route, path_sequence, total_distance, r, order) ==
    IF unvisited = {}
    THEN {[route |-> route, total_distance |-> total_distance,
           path_sequence |-> path_sequence]}
    ELSE UNION {
            IF best.next_node # None
            THEN RouteLoopKeepsJoinNode(graph, best.next_node,
                           unvisited \ {best.next_node},
                           Append(route, best.next_node),
                           path_sequence \o best.shortest_path,
                           total_distance + best.shortest_distance, r, order)
            ELSE {NoRoute}
            : best \in ScanUnvisited(graph, current_node,
                                     SelectSeq(order, LAMBDA n : n \in unvisited),
                                     1, r, NoBest)}

RECURSIVE RouteLoop(_, _, _, _, _, _, _, _)
\* while unvisited: ... ; return route, total_distance, path_sequence
\* (or None, 0, None as soon as no unvisited node has a path)
RouteLoop(graph, current_node, unvisited, route, path_sequence, total_distance, r, order) ==
    IF unvisited = {}
    THEN {[route |-> route, total_distance |-> total_distance,
           path_sequence |-> path_sequence]}
    ELSE UNION {
            IF best.next_node # None
            THEN RouteLoop(graph, best.next_node, unvisited \ {best.next_node},
                           Append(route, best.next_node),
                           path_sequence \o Tail(best.shortest_path),
                           total_distance + best.shortest_distance, r, order)
            ELSE {NoRoute}
            : best \in ScanUnvisited(graph, current_node,
                                     SelectSeq(order, LAMBDA n : n \in unvisited),
                                     1, r, NoBest)}

\* find_disaster_aware_route(start_node, delivery_nodes, rain_intensity),
\* `order` being the iteration order of set(delivery_nodes)
find_disaster_aware_route(graph, start, deliveries, r, order) ==
    RouteLoop(graph, start, ToSet(deliveries), <<start>>, <<start>>, 0, r, order)

(***************************************************************************)
(* simulate_movement                                                       *)
(***************************************************************************)

\* the check taking a landslide to block the edge from intensity 5 only
is_edge_blocked_landslide_from_five(edge_data, r) ==
    \/ edge_data.currently_flooded /\ r >= 5
    \/ edge_data.currently_landslide /\ r >= 5

is_edge_blocked(edge_data, r) ==
    \/ edge_data.currently_flooded /\ r >= 5
    \/ edge_data.currently_landslide /\ r >= 4

\* the speed with the flood penalty applied whether or not the edge is flooded
adjusted_speed_always_flood_penalty(edge_data, r, speed) ==
    speed * rain_intensity_effects(r).speed_multiplier
          * 5
          * (IF edge_data.currently_landslide THEN 3 ELSE 10)

\* adjusted_speed in 1/1000 of a distance unit per time unit:
\* base_speed * speed_multiplier, *= 0.5 if flooded, *= 0.3 if landslide
adjusted_speed(edge_data, r, speed) ==
    speed * rain_intensity_effects(r).speed_multiplier
          * (IF edge_data.currently_flooded THEN 5 ELSE 10)
          * (IF edge_data.currently_landslide THEN 3 ELSE 10)

\* travel_time = edge_length / adjusted_speed, in 1/(36 * base_speed):
\* 36000 is a multiple of every product of the three factors above
travel_time(edge_data, r) ==
    (edge_data.length * 36000) \div adjusted_speed(edge_data, r, 1)

MovementResult(success, distance, time, visited, encounters, reason) ==
    [success |-> success, distance |-> distance, time |-> time,
     deliveries_made |-> Cardinality(visited),
     disaster_encounters |-> encounters, reason |-> reason]

RECURSIVE MovementLoop(_, _, _, _, _, _, _, _, _, _)
\* while current_path_idx < len(path_sequence) - 1: ...  (idx counts from 1)
MovementLoop(graph, path_sequence, idx, r, total_distance, total_time, encounters, visited, remaining, delivery_nodes_set) ==
    IF idx >= Len(path_sequence)
    THEN MovementResult(remaining = {}, total_distance, total_time, visited, encounters,
                        IF remaining = {} THEN "All deliveries completed"
                                          ELSE "Some deliveries missed")
    ELSE LET u == path_sequence[idx]
             v == path_sequence[idx + 1]
         IN  IF ~has_edge(graph, u, v)
             THEN MovementResult(FALSE, total_distance, total_time, visited, encounters,
                                 "Edge no longer exists")
             ELSE LET edge_data == graph.edges[<<u, v>>]
                      counted == [floods |-> encounters.floods
                                     + (IF edge_data.currently_flooded THEN 1 ELSE 0),
                                  landslides |-> encounters.landslides
                                     + (IF edge_data.currently_landslide THEN 1 ELSE 0)]
                  IN  IF is_edge_blocked(edge_data, r)
                      THEN MovementResult(FALSE, total_distance, total_time, visited,
                                          encounters, "Encountered blocked road")
                      ELSE IF adjusted_speed(edge_data, r, base_speed) <= 0
                      THEN MovementResult(FALSE, total_distance, total_time, visited,
                                          counted, "Speed dropped to zero")
                      ELSE MovementLoop(graph, path_sequence, idx + 1, r,
                               total_distance + edge_data.length,
                               total_time + travel_time(edge_data, r),
                               counted,
                               IF v \in delivery_nodes_set THEN visited \cup {v} ELSE visited,
                               IF v \in delivery_nodes_set THEN remaining \ {v} ELSE remaining,
                               delivery_nodes_set)

\* simulate_movement with the start node struck from the deliveries that remain
simulate_movement_start_not_awaited(graph, deliveries, route, path_sequence, r) ==
    MovementLoop(graph, path_sequence, 1, r, 0, 0, [floods |-> 0, landslides |-> 0],
                 {}, ToSet(deliveries) \ {route[1]}, ToSet(Tail(route)))

\* simulate_movement(route, path_sequence, rain_intensity)
simulate_movement(graph, deliveries, route, path_sequence, r) ==
    MovementLoop(graph, path_sequence, 1, r, 0, 0, [floods |-> 0, landslides |-> 0],
                 {}, ToSet(deliveries), ToSet(Tail(route)))

(***************************************************************************)
(* simulate_delivery and run_simulation                                    *)
(***************************************************************************)

\* The graph objects of a call of find_danger_aware_shortest_path: the
\* worker's self.G and the local G_temp.
GraphObjects == {"self.G", "G_temp"}

\* G_temp = self.G.copy(): Graph.copy() builds a graph of its own, with its
\* own node set and its own attribute dict for every edge, holding the values
\* of self.G
CopyGraph(graph) == [o \in GraphObjects |-> graph]

\* the loop `for u, v, data in G_temp.edges(data=True)` ending in
\*   G_temp.edges[u, v]['adjusted_weight'] = adjusted_weight
\* run on the graph object o: a key is added to each of its edge dicts
WriteAdjustedWeights(objects, o, r) ==
    [objects EXCEPT ![o] =
        [nodes |-> objects[o].nodes,
         edges |-> [e \in Edges(objects[o]) |->
                       [adjusted_weight |-> adjusted_weight(objects[o].edges[e], r)]
                           @@ objects[o].edges[e]]]]

\* the weights written to self.G itself, as if G_temp were no copy
graph_after_pathfinding_in_place(graph, r) ==
    WriteAdjustedWeights(CopyGraph(graph), "self.G", r)["self.G"]

\* self.G after a call of find_danger_aware_shortest_path: the copy, the
\* weight loop (which runs before the node check, so on every call), and
\* nx.shortest_path and the length sum, which read G_temp only
graph_after_pathfinding(graph, r) ==
    WriteAdjustedWeights(CopyGraph(graph), "G_temp", r)["self.G"]

\* self.G after simulate_delivery: find_disaster_aware_route calls the
\* pathfinder once for every unvisited node of every step (at least once
\* unless set(delivery_nodes) is empty, every call with the same flags and
\* rain intensity) and writes to no graph itself; simulate_movement reads
\* self.G through has_edge, edges[u, v] and .get only
graph_after_delivery(graph, deliveries, r) ==
    IF ToSet(deliveries) = {} THEN graph ELSE graph_after_pathfinding(graph, r)

\* the dict returned when `not route`: it has no 'deliveries_made' key and an
\* empty disaster_encounters
NoRouteResult ==
    [success |-> FALSE, distance |-> 0, time |-> 0, reroutes |-> 0,
     disaster_encounters |-> <<>>, reason |-> "No valid route found initially"]

\* simulate_delivery(rain_intensity): the dicts it can return, `order` being
\* the iteration order of set(delivery_nodes) inside the route construction
simulate_delivery(graph, start, deliveries, r, order) ==
    {IF found.route = <<>>
     THEN NoRouteResult
     ELSE simulate_movement(graph, deliveries, found.route, found.path_sequence, r)
              @@ [reroutes |-> 0]
     : found \in find_disaster_aware_route(graph, start, deliveries, r, order)}

\* MonteCarloSimulation(G, start_node, delivery_nodes, ideal_delivery_time, ...):
\* __init__ stores its arguments and resets the counters; it checks nothing,
\* so it returns an object for every graph, start node and delivery list.
\* The fields of the fresh object:
Constructed(sim_completed, sim_severity, sim_runs) ==
    /\ sim_completed = 0
    /\ sim_severity = None
    /\ sim_runs = <<>>

\* run_simulation up to its loop: self.weather_severity = weather_severity and
\* the MonteCarloSimulationWorker over the same graph object
BeginRun ==
    /\ pc = "run"
    /\ weather_severity' = severity
    /\ pc' = IF num_simulations > 0 THEN "trial" ELSE "summary"
    /\ UNCHANGED <<G, start_node, delivery_nodes, num_simulations, severity,
                   completed_simulations, all_runs, rain_intensity,
                   activated_disasters, drawn, parVars, callVars>>

\* whether each of the two draws of an edge fell below its product
\* (the two `if random.random() < ...` tests of activate_disasters)
DrawOutcomes(graph, r, u) ==
    [e \in Edges(graph) |->
        [flood     |-> u[e].flood < graph.edges[e].flood_prone * flood_threshold(r),
         landslide |-> u[e].landslide
                          < graph.edges[e].landslide_prone * landslide_threshold(r)]]

\* the loop iteration leaving the loop as soon as a trial fails
TrialAbortsOnFailure ==
    /\ pc = "trial"
    /\ \E r \in RainChoices(weather_severity) :
          /\ rain_intensity' = r
          /\ \E act \in {[graph |-> activate_disasters(G, r, u),
                          outcomes |-> DrawOutcomes(G, r, u)] : u \in Draws(G)} :
                /\ G' = graph_after_delivery(act.graph, delivery_nodes, r)
                /\ drawn' = act.outcomes
    /\ activated_disasters' = ActivatedCounts(G')
    /\ \E result \in UNION {simulate_delivery(G', start_node, delivery_nodes,
                                              rain_intensity', order)
                            : order \in SetOrders(ToSet(delivery_nodes))} :
          /\ all_runs' = Append(all_runs,
                                result @@ [rain_intensity |-> rain_intensity',
                                           activated_disasters |-> activated_disasters'])
          /\ pc' = IF result.success /\ completed_simulations + 1 < num_simulations
                   THEN "trial" ELSE "summary"
    /\ completed_simulations' = completed_simulations + 1
    /\ UNCHANGED <<start_node, delivery_nodes, num_simulations, severity,
                   weather_severity, parVars, callVars>>

\* One iteration of the loop of run_simulation:
\*   rain_intensity = np.random.choice(range(1,6), p=...)
\*   activated_disasters = simulator.activate_disasters(rain_intensity)
\*   result = simulator.simulate_delivery(rain_intensity)     (on the graph
\*       as activate_disasters left it)
\*   (G' is the graph object as the trial leaves it)
\*   result['rain_intensity'], result['activated_disasters'] = ...
\*   all_runs.append(result); completed_simulations = i + 1
\* `drawn` records the outcomes of this trial's draws.
Trial ==
    /\ pc = "trial"
    /\ \E r \in RainChoices(weather_severity) :
          /\ rain_intensity' = r
          /\ \E act \in {[graph |-> activate_disasters(G, r, u),
                          outcomes |-> DrawOutcomes(G, r, u)] : u \in Draws(G)} :
                /\ G' = graph_after_delivery(act.graph, delivery_nodes, r)
                /\ drawn' = act.outcomes
    /\ activated_disasters' = ActivatedCounts(G')
    /\ \E result \in UNION {simulate_delivery(G', start_node, delivery_nodes,
                                              rain_intensity', order)
                            : order \in SetOrders(ToSet(delivery_nodes))} :
          all_runs' = Append(all_runs,
                             result @@ [rain_intensity |-> rain_intensity',
                                        activated_disasters |-> activated_disasters'])
    /\ completed_simulations' = completed_simulations + 1
    /\ pc' = IF completed_simulations + 1 < num_simulations THEN "trial" ELSE "summary"
    /\ UNCHANGED <<start_node, delivery_nodes, num_simulations, severity,
                   weather_severity, parVars, callVars>>

\* The end of run_simulation: success_count/len(all_runs) raises
\* ZeroDivisionError when no trial ran, which ends the driver in its except
\* clause.  Otherwise the driver's loop goes on: it constructs the
\* MonteCarloSimulation of the next weather severity over the same graph
\* object, or ends after the last severity.
FinishRun ==
    /\ pc = "summary"
    /\ IF Len(all_runs) = 0
       THEN /\ pc' = "raised"
            /\ UNCHANGED <<severity, weather_severity, completed_simulations, all_runs>>
       ELSE IF severity < NumSeverities
            THEN /\ severity' = severity + 1
                 /\ Constructed(completed_simulations', weather_severity', all_runs')
                 /\ pc' = "run"
            ELSE /\ pc' = "exit"
                 /\ UNCHANGED <<severity, weather_severity, completed_simulations, all_runs>>
    /\ UNCHANGED <<G, start_node, delivery_nodes, num_simulations, rain_intensity,
                   activated_disasters, drawn, parVars, callVars>>

(***************************************************************************)
(* Inputs                                                                  *)
(***************************************************************************)

MaxSimulations == 2

\* a node identifier that no graph of the family holds
AbsentNode == 4

\* Edge <<1, 2>> is in every three-node graph; the others are optional.
OptionalEdges == {<<2, 3>>, <<1, 3>>, <<3, 2>>}

\* the edges of which one may be hazard-prone
HazardEdges == {<<1, 2>>, <<2, 3>>}

EdgeLength(e) == IF e = <<1, 3>> THEN 3000 ELSE 1000

\* <<flood_prone, landslide_prone>> in tenths of the one hazard-prone edge;
\* an edge prone to both only in the two-node graphs
ProneProfiles(n) ==
    IF n = 2 THEN {<<10, 0>>, <<0, 10>>, <<10, 10>>} ELSE {<<10, 0>>, <<0, 10>>}

\* an edge as initialize_edge_disaster_attributes leaves it: both flags False
NewEdge(e, prone) ==
    [length |-> EdgeLength(e), flood_prone |-> prone[1], landslide_prone |-> prone[2],
     currently_flooded |-> FALSE, currently_landslide |-> FALSE]

EdgeSets(n) ==
    IF n = 2 THEN {{}, {<<1, 2>>}}
    ELSE {{<<1, 2>>} \cup S : S \in SUBSET OptionalEdges}

\* A graph in which nodes 2 and 3 are equally far from node 1 and from each
\* other: no edge is hazard-prone and every edge has the same length.
EquidistantGraph ==
    [nodes |-> 1..3,
     edges |-> [e \in {<<1, 2>>, <<1, 3>>, <<2, 3>>, <<3, 2>>} |->
                   [NewEdge(e, <<0, 0>>) EXCEPT !.length = EdgeLength(<<1, 2>>)]]]

\* The graphs over nodes 1..n (n = 2, 3) of which at most one edge (h) is
\* hazard-prone, and the equidistant graph.
Graphs ==
    UNION {
        {[nodes |-> 1..n,
          edges |-> [e \in E |-> NewEdge(e, IF e = h THEN prone ELSE <<0, 0>>)]] :
            E \in EdgeSets(n),
            h \in HazardEdges \cup {<<0, 0>>},
            prone \in ProneProfiles(n)}
        : n \in {2, 3}}
    \cup {EquidistantGraph}

\* delivery lists: empty, one stop, two stops, a repeated stop, one holding
\* the start node, one holding a node outside every graph
DeliveryLists ==
    {<<>>, <<2>>, <<2, 3>>, <<2, 2>>, <<1, 2>>, <<2, AbsentNode>>}

\* <<start_node, delivery_nodes>>: node 1 as the start with every list, and a
\* start node outside the graph
Inputs ==
    {<<1, d>> : d \in DeliveryLists} \cup {<<AbsentNode, <<2>>>>}

\* The coordinator is not part of the engine's specification: its variables rest.
ParIdle ==
    /\ wpc = <<>>
    /\ wsim = <<>>
    /\ puts = <<>>
    /\ main_queue = <<>>
    /\ cpc = "idle"
    /\ received = 0
    /\ simulation_runs = <<>>
    /\ labels = <<>>

SimInit ==
    /\ G \in Graphs
    /\ \E input \in Inputs : start_node = input[1] /\ delivery_nodes = input[2]
    /\ num_simulations \in {0, MaxSimulations}
    /\ Constructed(completed_simulations, weather_severity, all_runs)
    /\ pc = "run"
    /\ severity = 1
    /\ rain_intensity = 0
    /\ activated_disasters = [floods |-> 0, landslides |-> 0]
    /\ drawn = <<>>
    /\ ParIdle
    /\ CallIdle

Next ==
    \/ BeginRun
    \/ Trial
    \/ FinishRun

Spec == SimInit /\ [][Next]_vars

(***************************************************************************)
(* MoveSpec: simulate_movement invoked repeatedly on one worker object     *)
(***************************************************************************)

MaxInvocations == 2

\* A MonteCarloSimulationWorker as simulate_delivery has it when it calls
\* simulate_movement: a graph of the family with the flags some
\* activate_disasters(rain_intensity) left on it, and a route and path
\* sequence that find_disaster_aware_route returned for it.
MoveInit ==
    /\ \E g \in Graphs, r \in 1..5 :
          \E u \in Draws(g) :
              /\ G = activate_disasters(g, r, u)
              /\ rain_intensity = r
    /\ \E input \in Inputs : start_node = input[1] /\ delivery_nodes = input[2]
    /\ \E order \in SetOrders(ToSet(delivery_nodes)) :
          \E found \in find_disaster_aware_route(G, start_node, delivery_nodes,
                                                 rain_intensity, order) :
              /\ found # NoRoute
              /\ call_route = found.route
              /\ call_path_sequence = found.path_sequence
    /\ movement_results = <<>>
    /\ num_simulations = 0
    /\ pc = "call"
    /\ severity = 0
    /\ weather_severity = None
    /\ completed_simulations = 0
    /\ all_runs = <<>>
    /\ activated_disasters = ActivatedCounts(G)
    /\ drawn = <<>>
    /\ ParIdle

\* simulate_movement that takes the flood flag off every edge of the walk
MoveClearsFloodFlags ==
    /\ pc = "call"
    /\ Len(movement_results) < MaxInvocations
    /\ movement_results' =
          Append(movement_results,
                 simulate_movement(G, delivery_nodes, call_route, call_path_sequence,
                                   rain_intensity))
    /\ G' = [G EXCEPT !.edges =
                [e \in Edges(G) |->
                    IF \E k \in 1..(Len(call_path_sequence) - 1) :
                          e = <<call_path_sequence[k], call_path_sequence[k + 1]>>
                    THEN [G.edges[e] EXCEPT !.currently_flooded = FALSE]
                    ELSE G.edges[e]]]
    /\ UNCHANGED <<start_node, delivery_nodes, num_simulations, pc, severity,
                   weather_severity, completed_simulations, all_runs, rain_intensity,
                   activated_disasters, drawn, call_route, call_path_sequence, parVars>>

\* One invocation of simulate_movement(route, path_sequence, rain_intensity).
\* The method assigns to its locals only (current_node, current_path_idx, the
\* totals, disaster_encounters, the two sets built from its arguments); it
\* reads self.G, self.delivery_nodes and self.base_speed and writes none.
Move ==
    /\ pc = "call"
    /\ Len(movement_results) < MaxInvocations
    /\ movement_results' =
          Append(movement_results,
                 simulate_movement(G, delivery_nodes, call_route, call_path_sequence,
                                   rain_intensity))
    /\ UNCHANGED <<simVars, call_route, call_path_sequence, parVars>>

MoveNext == Move

MoveSpec == MoveInit /\ [][MoveNext]_vars

(***************************************************************************)
(* WorkerSpec: one process_worker running its simulation                   *)
(***************************************************************************)

\* process_worker(G_serialized, start_node, delivery_nodes, ...,
\* weather_severity, num_simulations, main_queue) up to the call of
\* run_simulation: the graph is deserialized, the MonteCarloSimulation is
\* constructed (its __init__ checks nothing and raises nothing); `severity`
\* is the weather_severity argument, which names the worker.
WorkerInit ==
    /\ G \in Graphs
    /\ \E input \in Inputs : start_node = input[1] /\ delivery_nodes = input[2]
    /\ num_simulations \in {0, 1}
    /\ Constructed(completed_simulations, weather_severity, all_runs)
    /\ pc = "run"
    /\ severity \in Severities
    /\ rain_intensity = 0
    /\ activated_disasters = [floods |-> 0, landslides |-> 0]
    /\ drawn = <<>>
    /\ wpc = [w \in {severity} |-> "try"]
    /\ wsim = [w \in {severity} |-> "unbound"]
    /\ puts = [w \in {severity} |-> <<>>]
    /\ main_queue = <<>>
    /\ cpc = "idle"
    /\ received = 0
    /\ simulation_runs = <<>>
    /\ labels = <<>>
    /\ CallIdle

\* run_simulation returning with a success rate of zero when no trial ran
WorkerRunEndsWithZeroRate(w) ==
    /\ wpc[w] = "try"
    /\ pc = "summary"
    /\ pc' = "returned"
    /\ wsim' = [wsim EXCEPT ![w] = "complete"]
    /\ wpc' = [wpc EXCEPT ![w] = "put"]
    /\ UNCHANGED <<G, start_node, delivery_nodes, num_simulations, severity,
                   weather_severity, completed_simulations, all_runs, rain_intensity,
                   activated_disasters, drawn, puts, main_queue, cpc, received,
                   simulation_runs, labels, callVars>>

\* The end of run_simulation inside the try block of process_worker:
\* success_count/len(all_runs) raises ZeroDivisionError when all_runs is
\* empty, which the `except Exception` clause catches with `simulation` bound;
\* otherwise run_simulation returns and the worker goes on to its put.
WorkerRunEnds(w) ==
    /\ wpc[w] = "try"
    /\ pc = "summary"
    /\ pc' = IF Len(all_runs) = 0 THEN "raised" ELSE "returned"
    /\ wsim' = [wsim EXCEPT ![w] = IF Len(all_runs) = 0 THEN "partial" ELSE "complete"]
    /\ wpc' = [wpc EXCEPT ![w] = IF Len(all_runs) = 0 THEN "except" ELSE "put"]
    /\ UNCHANGED <<G, start_node, delivery_nodes, num_simulations, severity,
                   weather_severity, completed_simulations, all_runs, rain_intensity,
                   activated_disasters, drawn, puts, main_queue, cpc, received,
                   simulation_runs, labels, callVars>>

WorkerNext ==
    \/ BeginRun
    \/ Trial
    \/ \E w \in DOMAIN wpc : WorkerRunEnds(w)
    \/ \E w \in DOMAIN wpc : WorkerExcept(w)
    \/ \E w \in DOMAIN wpc : WorkerPut(w)

WorkerSpec == WorkerInit /\ [][WorkerNext]_vars

(***************************************************************************)
(* Properties of the parallel coordinator (ParSpec)                        *)
(***************************************************************************)

\* worker w may still put a message on main_queue
CanStillPut(w) ==
    \/ wpc[w] \in {"try", "except"}
    \/ wpc[w] = "put" /\ wsim[w] # "unbound"

\* C1: the coordinator's result collection never blocks forever: while it is
\* in its receive loop, a message is waiting or some worker can still put
\* one, whichever workers completed, raised or ended without a put.
C1_CollectionNeverBlocksForever ==
    cpc = "collect" => (main_queue # <<>> \/ \E w \in Severities : CanStillPut(w))

\* C2: a process_worker that ran to its end has put exactly one message: its
\* simulation when the run completed, only the None marker when the
\* constructor or run_simulation raised.
C2_ExactlyOneMessagePerWorker ==
    \A w \in Severities :
        wpc[w] \in {"done", "dead"} =>
            puts[w] = IF wsim[w] = "complete" THEN <<SimMsg(w, TRUE)>> ELSE <<NoneMsg>>

\* C3: once the collection loop has ended and every process_worker has run
\* to its end, simulation_runs holds exactly the simulations of the workers
\* whose run completed without raising.
C3_RunsAreTheCompletedWorkers ==
    (cpc # "collect" /\ \A w \in Severities : wpc[w] \in {"done", "dead"}) =>
        ToSet(simulation_runs) = {SimMsg(w, TRUE) : w \in {x \in Severities : wsim[x] = "complete"}}

\* C4: the weather-severity label the reporting attaches to a run equals the
\* weather_severity that run carries, whatever the arrival order and whichever
\* workers reported a result (stated for the runs in which no worker put more
\* than one message).
C4_LabelIsTheCarriedSeverity ==
    (cpc = "done" /\ \A w \in Severities : Len(puts[w]) <= 1) =>
        \A i \in DOMAIN labels : labels[i].label = labels[i].weather_severity

(***************************************************************************)
(* Properties of the simulation engine (Spec)                              *)
(***************************************************************************)

SomeTrialRan == severity > 1 \/ completed_simulations > 0

\* C5: after every trial each edge's currently_flooded and currently_landslide
\* are exactly the outcomes drawn in that trial, for every edge of the graph,
\* also when the graph object carries flags from an earlier trial or an
\* earlier weather severity.
C5_FlagsAreThisTrialsDraws ==
    SomeTrialRan =>
        /\ DOMAIN drawn = Edges(G)
        /\ \A e \in Edges(G) :
              /\ G.edges[e].currently_flooded = drawn[e].flood
              /\ G.edges[e].currently_landslide = drawn[e].landslide

\* a second trial of a later severity cleared a flood flag that the trial
\* before it had set on the same graph object
C5_Witness ==
    /\ severity >= 2
    /\ Len(all_runs) = 2
    /\ all_runs[1].activated_disasters.floods = 1
    /\ all_runs[2].activated_disasters.floods = 0
    /\ \E e \in Edges(G) : G.edges[e].flood_prone > 0 /\ ~G.edges[e].currently_flooded

PathEdges(path) == {<<path[i], path[i + 1]>> : i \in 1..(Len(path) - 1)}

\* the edge is impassable at rain intensity r (its adjusted weight is +inf)
Impassable(graph, e, r) ==
    \/ graph.edges[e].currently_flooded /\ r >= 5
    \/ graph.edges[e].currently_landslide /\ r >= 4

\* what C6 asks of one result of the pathfinder
AvoidsImpassable(graph, s, t, r, res) ==
    /\ \A e \in PathEdges(res.path) : ~Impassable(graph, e, r)
    /\ (s # t /\ \A p \in SimplePaths(graph, s, t) :
                    \E e \in PathEdges(p) : Impassable(graph, e, r))
          => res = NoPath

\* C6: with the flags and rain intensity of the trial just run, between every
\* two nodes the pathfinder returns no path over a flooded edge at intensity 5
\* or a landslide edge at intensity >= 4, and returns (None, +inf) when every
\* path holds such an edge.  (Stated of some result the call can return, so
\* that no choice among equal paths can be what violates it.)
C6_PathfinderAvoidsImpassableEdges ==
    SomeTrialRan =>
        \A s, t \in G.nodes :
            \E res \in find_danger_aware_shortest_path(G, s, t, rain_intensity) :
                AvoidsImpassable(G, s, t, rain_intensity, res)

TwoNodeFloodProne ==
    /\ G.nodes = {1, 2}
    /\ Edges(G) = {<<1, 2>>}
    /\ G.edges[<<1, 2>>].length = 1000
    /\ G.edges[<<1, 2>>].flood_prone = 10
    /\ G.edges[<<1, 2>>].landslide_prone = 0
    /\ start_node = 1
    /\ delivery_nodes = <<2>>

\* C7: on the two-node graph 1 -> 2 (length 1000, flood_prone 1.0) every
\* trial at rain intensity 5 has the edge flooded and ends with success false,
\* zero distance and time, and the reason 'No valid route found initially'.
C7_FloodedTwoNodeTrialHasNoRoute ==
    TwoNodeFloodProne =>
        \A i \in DOMAIN all_runs :
            all_runs[i].rain_intensity = 5 =>
                /\ all_runs[i].activated_disasters.floods = 1
                /\ ~all_runs[i].success
                /\ all_runs[i].distance = 0
                /\ all_runs[i].time = 0
                /\ all_runs[i].reason = "No valid route found initially"

\* every edge of the graph has flood_prone = 0 and landslide_prone = 0
NoProneEdge ==
    \A e \in Edges(G) : G.edges[e].flood_prone = 0 /\ G.edges[e].landslide_prone = 0

Reachable(graph, s, t) ==
    /\ s \in graph.nodes
    /\ t \in graph.nodes
    /\ (s = t \/ SimplePaths(graph, s, t) # {})

\* C8 as stated: with no prone edge and every delivery node reachable from the
\* start, every trial of the severity-1 run succeeds, at every rain
\* intensity 1..5.
C8_EverySeverityOneTrialSucceeds ==
    (/\ weather_severity = 1
     /\ all_runs # <<>>
     /\ NoProneEdge
     /\ \A d \in ToSet(delivery_nodes) : Reachable(G, start_node, d)) =>
        \A i \in DOMAIN all_runs : all_runs[i].success

\* the delivery lists the amended C8 covers: the start node is not listed, and
\* every listed node is reachable from the start and from every other listed
\* node
StopsMutuallyReachable ==
    /\ start_node \notin ToSet(delivery_nodes)
    /\ \A d \in ToSet(delivery_nodes) :
          /\ Reachable(G, start_node, d)
          /\ \A c \in ToSet(delivery_nodes) : Reachable(G, c, d)

\* C8 as amended: with no prone edge, the start node not among the delivery
\* nodes, and every delivery node reachable from the start and from every
\* other delivery node, every trial of the severity-1 run at rain intensity
\* 1..4 succeeds.
C8_TrialsBelowIntensityFiveSucceed ==
    (weather_severity = 1 /\ all_runs # <<>> /\ NoProneEdge /\ StopsMutuallyReachable) =>
        \A i \in DOMAIN all_runs :
            all_runs[i].rain_intensity <= 4 => all_runs[i].success

\* a severity-1 trial at rain intensity 4 that made both deliveries of
\* <<2, 3>> over a graph without prone edges in which 2 and 3 reach each other
C8_Witness ==
    /\ weather_severity = 1
    /\ NoProneEdge
    /\ StopsMutuallyReachable
    /\ delivery_nodes = <<2, 3>>
    /\ \E i \in DOMAIN all_runs :
          /\ all_runs[i].rain_intensity = 4
          /\ all_runs[i].success
          /\ all_runs[i].deliveries_made = 2

\* C9 as stated: in every trial result success implies deliveries_made =
\* len(delivery_nodes), and deliveries_made < len(delivery_nodes) implies
\* success is false.
C9_SuccessIffAllListedDeliveries ==
    \A i \in DOMAIN all_runs :
        /\ all_runs[i].success =>
              /\ "deliveries_made" \in DOMAIN all_runs[i]
              /\ all_runs[i].deliveries_made = Len(delivery_nodes)
        /\ ("deliveries_made" \in DOMAIN all_runs[i]
               /\ all_runs[i].deliveries_made < Len(delivery_nodes))
              => ~all_runs[i].success

\* C9 as amended: in every trial result success implies deliveries_made = the
\* number of distinct nodes in delivery_nodes, and a result whose
\* deliveries_made is less than that number has success false.
C9_SuccessIffAllDistinctDeliveries ==
    \A i \in DOMAIN all_runs :
        /\ all_runs[i].success =>
              /\ "deliveries_made" \in DOMAIN all_runs[i]
              /\ all_runs[i].deliveries_made = Cardinality(ToSet(delivery_nodes))
        /\ ("deliveries_made" \in DOMAIN all_runs[i]
               /\ all_runs[i].deliveries_made < Cardinality(ToSet(delivery_nodes)))
              => ~all_runs[i].success

\* a trial over the list <<2, 2>> that succeeded with its one distinct delivery
C9_Witness ==
    /\ delivery_nodes = <<2, 2>>
    /\ \E i \in DOMAIN all_runs :
          /\ all_runs[i].success
          /\ all_runs[i].deliveries_made = 1

InvalidInputs ==
    \/ start_node \notin G.nodes
    \/ \E d \in ToSet(delivery_nodes) : d \notin G.nodes
    \/ delivery_nodes = <<>>

\* C10: with a start node or a delivery node outside the graph, or an empty
\* delivery list, construction fails: no trial runs and no result is recorded.
C10_InvalidInputsRunNoTrial ==
    InvalidInputs => (completed_simulations = 0 /\ all_runs = <<>>)

\* how far below 1 and above 5 the out-of-range rain intensities are taken
IntensityMargin == 2

OutOfRangeIntensities ==
    ((1 - IntensityMargin)..0) \cup (6..(5 + IntensityMargin))

\* draws in 1/10000: the two of RandomValues and 0.11, which lies between the
\* level-1 flood product of a fully prone edge (0.10) and 1.2 times it
BoundaryDraws == RandomValues \cup {1100}

\* C11: for every integer rain_intensity below 1 or above 5, activate_disasters
\* applies the flood and landslide thresholds of rain_intensity 1, so that on
\* every edge and for every pair of draws it sets the flags it sets at
\* intensity 1.
C11_OutOfRangeIntensityActsAsLevelOne ==
    \A r \in OutOfRangeIntensities :
        \A e \in Edges(G) :
            \A u \in [flood : BoundaryDraws, landslide : BoundaryDraws] :
                ActivateEdge(G.edges[e], r, u) = ActivateEdge(G.edges[e], 1, u)

\* the fields of a TrialResult
TrialResultFields ==
    {"success", "distance", "time", "deliveries_made", "disaster_encounters",
     "reason", "rain_intensity", "activated_disasters"}

\* C12: every result appended to all_runs carries every schema field, with
\* both counts in disaster_encounters and in activated_disasters and a
\* rain_intensity in 1..5, on every outcome path.
C12_EveryResultHasEveryField ==
    \A i \in DOMAIN all_runs :
        /\ TrialResultFields \subseteq DOMAIN all_runs[i]
        /\ DOMAIN all_runs[i].disaster_encounters = {"floods", "landslides"}
        /\ DOMAIN all_runs[i].activated_disasters = {"floods", "landslides"}
        /\ all_runs[i].rain_intensity \in 1..5

\* what C13 asks of every state of a run
AllTrialsCounted ==
    /\ completed_simulations = Len(all_runs)
    /\ pc = "trial" => Len(all_runs) < num_simulations
    /\ (pc \in {"summary", "exit"} /\ num_simulations >= 1) =>
          Len(all_runs) = num_simulations

\* what C13 asks of every trial: one result is appended behind the earlier
\* ones, which stay as they were, and the counter follows
TrialAppendsOneResult ==
    pc = "trial" =>
        /\ Len(all_runs') = Len(all_runs) + 1
        /\ SubSeq(all_runs', 1, Len(all_runs)) = all_runs
        /\ completed_simulations' = Len(all_runs')

\* C13: a run of N >= 1 trials at a severity in 1..5 on a fresh orchestrator
\* executes all N trials and ends with exactly N results, whatever the
\* outcomes of the trials; each trial appends one result, leaves the earlier
\* results unchanged, and leaves completed_simulations equal to the number of
\* results.
C13_FailedTrialsNeverAbortTheRun ==
    [](AllTrialsCounted) /\ [][TrialAppendsOneResult]_vars

\* a finished run of two trials of which the first was stopped by a blocked
\* road and the second succeeded
C13_Witness ==
    /\ pc = "summary"
    /\ num_simulations = 2
    /\ Len(all_runs) = 2
    /\ all_runs[1].reason = "Encountered blocked road"
    /\ all_runs[2].success
    /\ all_runs[2].deliveries_made >= 1

\* The pathfinder and the route construction read the graph, its flags and the
\* rain intensity only.  Every flag assignment and rain intensity a trial can
\* produce is produced by the first trial of a run as well, so what is claimed
\* of them is stated of the states right after a first trial.
FirstTrialJustRan == pc = "trial" /\ completed_simulations = 1

RECURSIVE StoredLengthUpTo(_, _, _)
\* the stored length attribute summed over the first k - 1 edges of the path
StoredLengthUpTo(graph, path, k) ==
    IF k <= 1 THEN 0
    ELSE StoredLengthUpTo(graph, path, k - 1) + graph.edges[<<path[k - 1], path[k]>>].length

C15_PathToItselfIsTheNodeAlone ==
    FirstTrialJustRan =>
        \A s \in G.nodes : \A r \in 1..5 :
            find_danger_aware_shortest_path(G, s, s, r) = {[path |-> <<s>>, length |-> 0]}

\* a first trial over the list <<1, 2>> from start node 1: the route
\* construction asked for the path from 1 to 1, took it as the nearest stop,
\* went on to 2, and the movement missed the delivery at 1
C15_Witness ==
    /\ FirstTrialJustRan
    /\ start_node = 1
    /\ delivery_nodes = <<1, 2>>
    /\ all_runs[1].reason = "Some deliveries missed"
    /\ all_runs[1].distance = 1000

TwoNodeNoProne ==
    /\ G.nodes = {1, 2}
    /\ Edges(G) = {<<1, 2>>}
    /\ G.edges[<<1, 2>>].length = 1000
    /\ G.edges[<<1, 2>>].flood_prone = 0
    /\ G.edges[<<1, 2>>].landslide_prone = 0
    /\ start_node = 1
    /\ delivery_nodes = <<2>>

\* time 2.0 in the model's unit of 1/(36 * base_speed)
TwoTimeUnits == 2 * 36 * base_speed

\* C16: on the two-node graph 1 -> 2 (length 1000, no proneness), start 1,
\* deliveries <<2>>, base speed 500, every trial at rain intensity 1 yields
\* success, distance 1000, time 2.0 and deliveries_made 1.
C16_ClearTwoNodeTrialTakesTwoTimeUnits ==
    TwoNodeNoProne =>
        \A i \in DOMAIN all_runs :
            all_runs[i].rain_intensity = 1 =>
                /\ all_runs[i].success
                /\ all_runs[i].distance = 1000
                /\ all_runs[i].time = TwoTimeUnits
                /\ all_runs[i].deliveries_made = 1

\* such a trial was run
C16_Witness ==
    /\ TwoNodeNoProne
    /\ base_speed = 500
    /\ \E i \in DOMAIN all_runs :
          /\ all_runs[i].rain_intensity = 1
          /\ all_runs[i].reason = "All deliveries completed"
          /\ all_runs[i].time = TwoTimeUnits

\* what simulate_movement reads
MovementInputs == <<G, delivery_nodes, call_route, call_path_sequence, rain_intensity>>

AdjustedDistance(graph, s, t, r) ==
    IF s = t THEN 0
    ELSE LET costs == {PathCost(graph, p, r, 1) : p \in SimplePaths(graph, s, t)}
         IN  IF costs = {} THEN Inf
             ELSE CHOOSE c \in costs : \A d \in costs : ~LessInf(d, c)

\* t is, among the nodes of `unvisited`, one nearest to s by adjusted weight
NearestByAdjustedWeight(graph, s, t, unvisited, r) ==
    \A n \in unvisited :
        ~LessInf(AdjustedDistance(graph, s, n, r), AdjustedDistance(graph, s, t, r))

EveryScanStep(P(_, _, _)) ==
    \A current \in {start_node} \cup ToSet(delivery_nodes) :
        \A unvisited \in SUBSET ToSet(delivery_nodes) :
            \A order \in SetOrders(unvisited) :
                \A best \in ScanUnvisited(G, current, order, 1, rain_intensity, NoBest) :
                    P(current, order, best)

\* one result of the pathfinder for each node of the scan
PathfinderAnswers(current, order) ==
    LET results(i) == find_danger_aware_shortest_path(G, current, order[i], rain_intensity)
    IN  {c \in [DOMAIN order -> UNION {results(i) : i \in DOMAIN order}] :
            \A i \in DOMAIN order : c[i] \in results(i)}

\* the positions of the nodes for which the pathfinder returned a path
WithPath(c) == {i \in DOMAIN c : c[i].path # <<>>}

\* best is the answer for position i
IsAnswer(best, order, c, i) ==
    /\ best.next_node = order[i]
    /\ best.shortest_distance = c[i].length
    /\ best.shortest_path = c[i].path

LeastReturnedLength(current, order, best) ==
    \E c \in PathfinderAnswers(current, order) :
        IF WithPath(c) = {} THEN best.next_node = None
        ELSE \E i \in WithPath(c) :
                /\ IsAnswer(best, order, c, i)
                /\ \A j \in WithPath(c) : c[i].length <= c[j].length

FirstOfTheLeast(current, order, best) ==
    \E c \in PathfinderAnswers(current, order) :
        IF WithPath(c) = {} THEN best.next_node = None
        ELSE \E i \in WithPath(c) :
                /\ IsAnswer(best, order, c, i)
                /\ \A j \in WithPath(c) :
                      \/ c[i].length < c[j].length
                      \/ c[i].length = c[j].length /\ i <= j

\* C19: with the flags and rain intensity of the first trial of a run, at each
\* step of find_disaster_aware_route the chosen next stop is an unvisited node
\* for which the pathfinder returned a path, its returned length is minimal
\* among such nodes, and among the nodes at that minimum it is the first in
\* iteration order.
C19_FirstNodeOfLeastLengthIsChosen ==
    FirstTrialJustRan => EveryScanStep(FirstOfTheLeast)

\* on the equidistant graph nodes 2 and 3 are tied from node 1, and the scan
\* keeps whichever of them the iteration meets first
C19_Witness ==
    /\ FirstTrialJustRan
    /\ G.nodes = EquidistantGraph.nodes
    /\ Edges(G) = Edges(EquidistantGraph)
    /\ start_node = 1
    /\ delivery_nodes = <<2, 3>>
    /\ \A order \in SetOrders({2, 3}) :
          \A best \in ScanUnvisited(G, 1, order, 1, rain_intensity, NoBest) :
              /\ best.next_node = order[1]
              /\ \E res \in find_danger_aware_shortest_path(G, 1, order[2], rain_intensity) :
                    res.length = best.shortest_distance

\* the pathfinder returns a path from s to t
HasPath(s, t) ==
    \E res \in find_danger_aware_shortest_path(G, s, t, rain_intensity) : res.path # <<>>

\* the route starts at the start node and then holds every distinct delivery
\* node exactly once, each stop having had a path from the stop before it
CompleteRoute(found) ==
    /\ Len(found.route) = 1 + Cardinality(ToSet(delivery_nodes))
    /\ found.route[1] = start_node
    /\ ToSet(Tail(found.route)) = ToSet(delivery_nodes)
    /\ \A k \in 1..(Len(found.route) - 1) : HasPath(found.route[k], found.route[k + 1])
    /\ found.path_sequence # <<>>
    /\ found.path_sequence[1] = start_node

\* some step can stand at a node from which no node of a non-empty set of
\* delivery nodes has a path
SomeStepFindsNoPath ==
    \E current \in {start_node} \cup ToSet(delivery_nodes) :
        \E unvisited \in (SUBSET ToSet(delivery_nodes)) \ {{}} :
            \A n \in unvisited : ~HasPath(current, n)

\* every delivery node has a path from the start node and from every other
\* delivery node
EveryStepFindsAPath ==
    \A current \in {start_node} \cup ToSet(delivery_nodes) :
        \A n \in ToSet(delivery_nodes) : HasPath(current, n)

RECURSIVE IsSubsequenceFrom(_, _, _, _)
\* sub[i..] occurs in seq[j..] in order, at strictly increasing positions
IsSubsequenceFrom(sub, seq, i, j) ==
    IF i > Len(sub) THEN TRUE
    ELSE IF j > Len(seq) THEN FALSE
    ELSE IF sub[i] = seq[j] THEN IsSubsequenceFrom(sub, seq, i + 1, j + 1)
    ELSE IsSubsequenceFrom(sub, seq, i, j + 1)

\* the walk starts at the start node, steps along edges of the graph only,
\* ends at the last stop of the route, and the distance returned is the sum
\* of the stored length of its edges
WalkRealizesRoute(found) ==
    /\ found.path_sequence # <<>>
    /\ found.path_sequence[1] = start_node
    /\ \A k \in 1..(Len(found.path_sequence) - 1) :
          has_edge(G, found.path_sequence[k], found.path_sequence[k + 1])
    /\ found.path_sequence[Len(found.path_sequence)] = found.route[Len(found.route)]
    /\ found.total_distance
          = StoredLengthUpTo(G, found.path_sequence, Len(found.path_sequence))

\* the routes find_disaster_aware_route returns with the flags and rain
\* intensity of the current trial
RoutesFound ==
    UNION {find_disaster_aware_route(G, start_node, delivery_nodes, rain_intensity, order)
           : order \in SetOrders(ToSet(delivery_nodes))} \ {NoRoute}

\* C21 (as stated): whenever find_disaster_aware_route succeeds, path_sequence
\* starts at the start node, every consecutive pair of its nodes is an edge of
\* the graph, the stops of the route (the start node first) occur in it as a
\* subsequence in route order with the last stop as its final node, and
\* total_distance is the sum of the stored edge lengths along path_sequence.
C21_RouteIsASubsequenceOfTheWalk ==
    FirstTrialJustRan =>
        \A found \in RoutesFound :
            /\ WalkRealizesRoute(found)
            /\ IsSubsequenceFrom(found.route, found.path_sequence, 1, 1)

\* C21 (amended): the same, the subsequence being the delivery stops of the
\* route, that is the route without its leading start node: a delivery node
\* equal to the start node is reached over the path <<start>>, which adds a stop
\* to the route and no node to the walk.
C21_DeliveryStopsAreASubsequenceOfTheWalk ==
    FirstTrialJustRan =>
        \A found \in RoutesFound :
            /\ WalkRealizesRoute(found)
            /\ IsSubsequenceFrom(Tail(found.route), found.path_sequence, 1, 1)

\* the start node is a delivery node: the route holds it twice, the walk once
C21_Witness ==
    /\ FirstTrialJustRan
    /\ start_node = 1
    /\ delivery_nodes = <<1, 2>>
    /\ \E found \in RoutesFound :
          /\ found.route = <<1, 1, 2>>
          /\ Len(found.path_sequence) >= 2
          /\ found.path_sequence[1] = 1
          /\ found.total_distance > 0

\* edge k of the walk: from its k-th node to the next
WalkEdge(ps, k) == <<ps[k], ps[k + 1]>>

\* the positions of the first blocked edge of the walk (none or one): flooded
\* at rain intensity >= 5 or landslide-struck at rain intensity >= 4
FirstBlockedEdges(ps) ==
    {k \in 1..(Len(ps) - 1) :
        /\ Impassable(G, WalkEdge(ps, k), rain_intensity)
        /\ \A j \in 1..(k - 1) : ~Impassable(G, WalkEdge(ps, j), rain_intensity)}

RECURSIVE WalkedBefore(_, _)
\* distance, time and disaster encounters summed over the edges before edge k
WalkedBefore(ps, k) ==
    IF k <= 1 THEN [distance |-> 0, time |-> 0, floods |-> 0, landslides |-> 0]
    ELSE LET before == WalkedBefore(ps, k - 1)
             data == G.edges[WalkEdge(ps, k - 1)]
         IN  [distance   |-> before.distance + data.length,
              time       |-> before.time + travel_time(data, rain_intensity),
              floods     |-> before.floods + (IF data.currently_flooded THEN 1 ELSE 0),
              landslides |-> before.landslides
                                + (IF data.currently_landslide THEN 1 ELSE 0)]

\* the result is the one of a walk that ended in front of edge k because that
\* edge is blocked: nothing of edge k or of a later edge is in it
StoppedAtBlockedEdge(res, found, k) ==
    /\ res.success = FALSE
    /\ res.reason = "Encountered blocked road"
    /\ res.distance = WalkedBefore(found.path_sequence, k).distance
    /\ res.time = WalkedBefore(found.path_sequence, k).time
    /\ res.disaster_encounters
          = [floods |-> WalkedBefore(found.path_sequence, k).floods,
             landslides |-> WalkedBefore(found.path_sequence, k).landslides]
    /\ res.deliveries_made
          = Cardinality({found.path_sequence[j] : j \in 2..k} \cap ToSet(Tail(found.route)))

\* every edge before edge k is walked at a positive speed
WalkedAtPositiveSpeedBefore(ps, k) ==
    \A j \in 1..(k - 1) :
        adjusted_speed(G.edges[WalkEdge(ps, j)], rain_intensity, base_speed) > 0

OnlyDisasterFlagsChange ==
    /\ G'.nodes = G.nodes
    /\ Edges(G') = Edges(G)
    /\ \A e \in Edges(G) :
          [G'.edges[e] EXCEPT !.currently_flooded = G.edges[e].currently_flooded,
                              !.currently_landslide = G.edges[e].currently_landslide]
              = G.edges[e]

\* C23: a trial modifies the graph only in activate_disasters and only in the
\* currently_flooded and currently_landslide flags: nodes, edges, length,
\* flood_prone and landslide_prone are as before the trial, and the pathfinder,
\* the route construction and the movement leave the worker's graph as
\* activate_disasters left it (no length altered, no adjusted weight written).
C23_TrialChangesOnlyDisasterFlags == [][OnlyDisasterFlagsChange]_vars

\* a trial whose route construction called the pathfinder and walked the
\* route set a flag on an edge, and the edge has its length and proneness
C23_Witness ==
    /\ SomeTrialRan
    /\ start_node = 1
    /\ delivery_nodes = <<2, 3>>
    /\ all_runs[Len(all_runs)].distance > 0
    /\ \E e \in Edges(G) :
          /\ G.edges[e].currently_flooded
          /\ G.edges[e].length = EdgeLength(e)
          /\ G.edges[e].flood_prone > 0
          /\ DOMAIN G.edges[e] = DOMAIN NewEdge(e, <<0, 0>>)

\* max(0.1, speed_multiplier) in tenths
ClampedSpeedMultiplier(r) ==
    IF rain_intensity_effects(r).speed_multiplier > 1
    THEN rain_intensity_effects(r).speed_multiplier ELSE 1

\* the edges of the graph that are neither flooded nor landslide-struck
ClearEdges ==
    {e \in Edges(G) : ~G.edges[e].currently_flooded /\ ~G.edges[e].currently_landslide}

\* C24: for every edge with currently_flooded = false and currently_landslide
\* = false and every rain intensity in 1..5, the adjusted weight of the path
\* search is length / max(0.1, speed_multiplier) (here cross-multiplied, the
\* weight in 1/AdjScale and the multiplier in tenths); at rain intensity 5 it
\* is length * 10, finite and positive.
C24_ClearEdgeWeightIsLengthOverSpeedMultiplier ==
    \A e \in ClearEdges :
        /\ \A r \in 1..5 :
              /\ ~IsInf(adjusted_weight(G.edges[e], r))
              /\ adjusted_weight(G.edges[e], r) * ClampedSpeedMultiplier(r)
                    = G.edges[e].length * 10 * AdjScale
        /\ adjusted_weight(G.edges[e], 5) = G.edges[e].length * 10 * AdjScale
        /\ adjusted_weight(G.edges[e], 5) > 0

\* a trial at rain intensity 5 left edge <<1, 2>> clear, the pathfinder gave
\* the path over it, of adjusted cost ten times its length, and the walk
\* began on it
C24_Witness ==
    /\ FirstTrialJustRan
    /\ rain_intensity = 5
    /\ start_node = 1
    /\ delivery_nodes = <<2>>
    /\ <<1, 2>> \in ClearEdges
    /\ \E res \in find_danger_aware_shortest_path(G, 1, 2, 5) :
          /\ res.path = <<1, 2>>
          /\ PathCost(G, res.path, 5, 1) = 10 * AdjScale * EdgeLength(<<1, 2>>)
    /\ all_runs[1].reason = "Speed dropped to zero"

\* what the walk of a route answers when it ends on its first edge at rain
\* intensity 5: blocked if the edge is flooded or landslide-struck, at a
\* standstill otherwise, nothing walked
EndsOnFirstEdge(res, found) ==
    /\ res.success = FALSE
    /\ res.distance = 0
    /\ res.time = 0
    /\ res.deliveries_made = 0
    /\ res.reason
          = (IF \/ G.edges[WalkEdge(found.path_sequence, 1)].currently_flooded
                \/ G.edges[WalkEdge(found.path_sequence, 1)].currently_landslide
             THEN "Encountered blocked road"
             ELSE "Speed dropped to zero")

\* C25: at rain intensity 5 a trial whose path_sequence holds at least one
\* edge ends on its first edge with success = false, distance 0 and time 0
\* (blocked road if that edge is flooded or landslide-struck, speed dropped to
\* zero otherwise); a trial at intensity 5 succeeds only if some path_sequence
\* it can be given has no edge.
C25_NoEdgeIsWalkedAtIntensityFive ==
    (FirstTrialJustRan /\ rain_intensity = 5) =>
        /\ \A found \in RoutesFound :
              Len(found.path_sequence) >= 2 =>
                  EndsOnFirstEdge(
                      simulate_movement(G, delivery_nodes, found.route,
                                        found.path_sequence, rain_intensity),
                      found)
        /\ all_runs[1].success =>
              \E found \in RoutesFound : Len(found.path_sequence) = 1

\* a trial at rain intensity 5 with a path of two edges, the first of them
\* flooded, ended there with nothing walked
C25_Witness ==
    /\ FirstTrialJustRan
    /\ rain_intensity = 5
    /\ \E found \in RoutesFound :
          /\ found.path_sequence = <<1, 2, 3>>
          /\ G.edges[<<1, 2>>].currently_flooded
    /\ all_runs[1].success = FALSE
    /\ all_runs[1].reason = "Encountered blocked road"
    /\ all_runs[1].distance = 0
    /\ all_runs[1].time = 0

\* C26: run_simulation with num_simulations = 0 on a fresh orchestrator runs
\* no trial and raises (the division by len(all_runs) = 0) instead of
\* returning; inside process_worker this takes the except clause, so the
\* failure marker is posted for that severity.
C26_ZeroSimulationsRaiseAndPostTheMarker ==
    num_simulations = 0 =>
        /\ all_runs = <<>>
        /\ completed_simulations = 0
        /\ drawn = <<>>
        /\ pc \in {"run", "summary", "raised"}
        /\ \A w \in DOMAIN wpc :
              /\ wpc[w] # "try" => pc = "raised"
              /\ wpc[w] \in {"put", "done", "dead"} =>
                    (puts[w] # <<>> /\ Head(puts[w]) = NoneMsg)

\* the worker of a run of zero simulations ended after posting the failure
\* marker, run_simulation having raised with no result recorded
C26_Witness ==
    /\ num_simulations = 0
    /\ pc = "raised"
    /\ all_runs = <<>>
    /\ wpc[severity] = "done"
    /\ Head(puts[severity]) = NoneMsg
    /\ Head(main_queue) = NoneMsg

====
